---- MODULE Spec2Model ----
(***************************************************************************)
(* A model of PyThermalCamera: the temperature decoder, the statistics     *)
(* extraction, the user point registry and the display parameters of       *)
(* ThermalCamera (src/src/thermal_camera.py), the main loop of ThermalApp  *)
(* (src/src/main.py) and the scalar decoder of the legacy single-file      *)
(* program (src/src/tc001v4.2.py).                                         *)
(*                                                                         *)
(* Temperatures are kept as integers in hundredths of a degree Celsius:    *)
(* every temperature the program stores is the double nearest to n/100     *)
(* for an integer n, and n identifies it.  The contrast gain alpha is kept  *)
(* as an integer in hundredths in the same way.                            *)
(***************************************************************************)
EXTENDS Integers, Sequences, FiniteSets, TLC

VARIABLES cap_open, thdata, center_point, min_point, max_point, avg_temp,
          user_points, call, pixel, decoded,
          scale, scaled_width, scaled_height, alpha, colormap_index,
          blur_radius, threshold, returned,
          pc, point_erase_mode, gui_colormap_text

\* returned is what the last call of a camera method returned: the heatmap
\* of get_frame (how it was colormapped), the name of next_colormap, and
\* "None" for a method that returns nothing or raised.

\* the display parameters of ThermalCamera
display == <<scale, scaled_width, scaled_height, alpha, colormap_index,
             blur_radius, threshold>>

\* the fields of ThermalApp and the position of its main loop
app == <<pc, point_erase_mode, gui_colormap_text>>

vars == <<cap_open, thdata, center_point, min_point, max_point, avg_temp,
          user_points, call, pixel, decoded, display, returned, app>>

(***************************************************************************)
(* Bounds of the model.                                                    *)
(***************************************************************************)
\* the frame size the capture device reports (256 x 192 on the real sensor)
sensor_width == 3
sensor_height == 2
\* how many user points the environment adds at most
MaxPoints == 3
\* how many pixels of a frame differ from its background at most
MaxSpots == 2
\* how far the environment raises the blur radius and the threshold
MaxBlur == 1
MaxThreshold == 3

(***************************************************************************)
(* Arithmetic helpers.                                                     *)
(***************************************************************************)
Abs(n) == IF n < 0 THEN -n ELSE n

RECURSIVE Pow2(_)
Pow2(n) == IF n <= 0 THEN 1 ELSE 2 * Pow2(n - 1)

\* floor(log2(n)) for n >= 1, and -1 for n = 0
RECURSIVE Log2(_)
Log2(n) == IF n <= 0 THEN -1 ELSE 1 + Log2(n \div 2)

Byte == 0..255

(***************************************************************************)
(* Temperature decoder.  A thermal pixel is two bytes; b0 is the byte at   *)
(* index 0 of the pixel (the first received), b1 the byte at index 1.      *)
(***************************************************************************)

\* RawMatrix with the two bytes taken in the other order
RawMatrixSwapped(b0, b1) == (((b0 * 256) % 65536) + b1) % 65536

\* RawMatrix computed in the 8 bits of the frame's bytes
RawMatrixUint8(b0, b1) == (((b1 * 256) % 256) + b0) % 256

\* get_frame: thdata[...,1].astype('uint16') * 256 + thdata[...,0], in uint16
RawMatrix(b0, b1) == (((b1 * 256) % 65536) + b0) % 65536

\* tc001v4.2 _extract_center_temp: hi = pixel[0]; lo = pixel[1]; lo = lo*256;
\* rawtemp = hi + lo, in Python integers
RawScalar(b0, b1) ==
    LET hi == b0
        lo == b1 * 256
    IN  hi + lo

\* raw/64 - 273.15 is exactly Sixteenths(raw)/16 hundredths of a degree:
\* 100*raw/64 = 25*raw/16 and 27315 = 437040/16
Sixteenths(raw) == 25 * raw - 437040

\* The double written 273.15 is 273.15 - 40/(100 * 2^44): it lies 0.4 units of
\* 2^-44 below the decimal.  raw/64 is exact in binary and the subtraction
\* raw/64 - 273.15 is exact too (both operands are even multiples of 2^-44 and
\* the difference is below 2^10), so in hundredths the double temperature is
\* Sixteenths(raw)/16 + LiteralExcess * 2^-44.
LiteralExcess == 40

\* The nearest integer to s/16 + e*2^-44 for 0 <= e < 2^40 (e moves the value
\* by less than 1/16): a tie of s/16 is broken upward by e > 0 and to the even
\* neighbour when e = 0.
RoundSixteenths(s, e) ==
    LET fl   == s \div 16            \* floor, also for negative s
        frac == s % 16
    IN  IF frac > 8 THEN fl + 1
        ELSE IF frac < 8 THEN fl
        ELSE IF e > 0 THEN fl + 1
        ELSE IF fl % 2 = 0 THEN fl ELSE fl + 1

\* Python round(temp, 2) on a float: the correctly rounded decimal of the exact
\* value of the double temp
PyRound2(s) == RoundSixteenths(s, LiteralExcess)

\* The binary exponent of the double s/16 + LiteralExcess*2^-44: floor(log2 |v|)
\* (-1 stands for every |v| < 1)
Exponent(s) ==
    IF s >= 0 THEN Log2(s \div 16) ELSE Log2((-s - 1) \div 16)

\* e rounded to a multiple of u, ties to the even multiple (the even mantissa)
RoundToMultiple(e, u) ==
    LET lo == (e \div u) * u
        hi == lo + u
    IN  IF e - lo < hi - e THEN lo
        ELSE IF e - lo > hi - e THEN hi
        ELSE IF (lo \div u) % 2 = 0 THEN lo ELSE hi

\* numpy ndarray.round(2) = rint(temp * 100.0) / 100.0.  The product
\* s/16 + LiteralExcess*2^-44 is rounded to 53 bits first: one unit in the last
\* place of a double with binary exponent k is 2^(k-52) = 2^(k-8) units of 2^-44,
\* so of the excess there is left RoundToMultiple(LiteralExcess, 2^(k-8)), and
\* rint (ties to even) rounds what is left.
NpRound2(s) ==
    LET k    == Exponent(s)
        left == IF k <= 8 THEN LiteralExcess
                ELSE RoundToMultiple(LiteralExcess, Pow2(k - 8))
    IN  RoundSixteenths(s, left)

\* get_frame lines 164-167 for one pixel: the temperature in hundredths
DecodeMatrixPixel(b0, b1) == NpRound2(Sixteenths(RawMatrix(b0, b1)))

\* tc001v4.2 _extract_center_temp lines 331-338 for one pixel
DecodeScalarPixel(b0, b1) == PyRound2(Sixteenths(RawScalar(b0, b1)))

(***************************************************************************)
(* Frames.  thdata is the thermal half of a frame: sensor_height rows of   *)
(* sensor_width pixels of two bytes, indexed from 0 as in the source.      *)
(***************************************************************************)
Rows == 0..(sensor_height - 1)
Cols == 0..(sensor_width - 1)

\* the pixel codes the frame source delivers: raw 0x0120 (-268.65 C) and raw
\* 0x4A00 (22.85 C), each as <<b0, b1>>
PixelCodes == {<<32, 1>>, <<0, 74>>}

\* before the first frame there is no thermal half
NoFrame == <<>>

Cells == Rows \X Cols

\* the frame of background code bg with the pixels of S set to the code fg
Paint(bg, fg, S) ==
    [r \in Rows |-> [c \in Cols |-> IF <<r, c>> \in S THEN fg ELSE bg]]

\* frames of a uniform background with at most n pixels of another code
FramesWithSpots(n) ==
    {Paint(bg, fg, S) : bg \in PixelCodes, fg \in PixelCodes,
                        S \in {T \in SUBSET Cells : Cardinality(T) <= n}}

\* get_frame lines 164-167: the temperature matrix of a thermal half
DecodeMatrix(th) ==
    [r \in Rows |-> [c \in Cols |-> DecodeMatrixPixel(th[r][c][1], th[r][c][2])]]

(***************************************************************************)
(* Statistics extraction.                                                  *)
(***************************************************************************)
Point(x, y, t) == [x_pos |-> x, y_pos |-> y, temperature |-> t]

\* the cells <<row, column>> of a matrix in the order numpy scans them
RowMajor ==
    [k \in 1..(sensor_width * sensor_height) |-> <<(k - 1) \div sensor_width, (k - 1) % sensor_width>>]

\* np.where(m == v): the <<row, column>> pairs of the matching cells in scan
\* order; numpy returns them as (array of rows, array of columns)
Where(m, v) ==
    LET Match(rc) == m[rc[1]][rc[2]] = v
    IN  SelectSeq(RowMajor, Match)

MatrixValues(m) == {m[rc[1]][rc[2]] : rc \in Rows \X Cols}

\* ndarray.max() and ndarray.min()
MatrixMax(m) == CHOOSE v \in MatrixValues(m) : \A w \in MatrixValues(m) : w <= v
MatrixMin(m) == CHOOSE v \in MatrixValues(m) : \A w \in MatrixValues(m) : v <= w

RECURSIVE SumCells(_, _)
SumCells(m, k) ==
    IF k = 0 THEN 0 ELSE m[RowMajor[k][1]][RowMajor[k][2]] + SumCells(m, k - 1)

\* the integers nearest to num/den (den > 0): two of them on a tie
NearestInts(num, den) ==
    LET fl == num \div den
    IN  {q \in {fl, fl + 1} : Abs(2 * (den * q - num)) <= den}

\* FirstMatch taking the last match of the scan
LastMatch(matches) == matches[Len(matches)]

\* the first element of the sequence np.where gives
FirstMatch(matches) == matches[1]

\* _extract_max_temp: mcol, mrow = np.where(thdata == max_val) binds mcol to
\* the array of rows and mrow to the array of columns; Point(mcol[0], mrow[0])
extract_max_temp(m) ==
    LET max_val == MatrixMax(m)
        first   == FirstMatch(Where(m, max_val))
        mcol    == first[1]
        mrow    == first[2]
    IN  Point(mcol, mrow, max_val)

\* extract_min_temp left calling max() as the method it was copied from
extract_min_temp_as_max(m) == extract_max_temp(m)

\* _extract_min_temp, the same with min()
extract_min_temp(m) ==
    LET min_val == MatrixMin(m)
        first   == FirstMatch(Where(m, min_val))
        mcol    == first[1]
        mrow    == first[2]
    IN  Point(mcol, mrow, min_val)

\* _extract_avg_temp: round(thdata.mean(), 2).  The mean is a floating-point
\* sum of doubles: off a tie its error is far too small to change the rounded
\* value; on a tie of the exact mean the error decides, so both neighbours are
\* possible results.
extract_avg_temp(m) == NearestInts(SumCells(m, sensor_width * sensor_height), sensor_width * sensor_height)

\* numpy indexing a[i] on an axis of length n: -n <= i < n, else IndexError
IndexOk(i, n) == -n <= i /\ i < n
IndexAt(i, n) == IF i < 0 THEN i + n ELSE i

\* thermal_matrix[y][x] is defined
SampleOk(p) == IndexOk(p.y_pos, sensor_height) /\ IndexOk(p.x_pos, sensor_width)

\* thermal_matrix[point.y_pos][point.x_pos]
Sample(m, p) == m[IndexAt(p.y_pos, sensor_height)][IndexAt(p.x_pos, sensor_width)]

\* extract_center_temp reading the first pixel of the matrix
extract_center_temp_first_pixel(m, center) ==
    [center EXCEPT !.temperature = m[0][0]]

\* _extract_center_temp: the center point object with its temperature re-read
extract_center_temp(m, center) == [center EXCEPT !.temperature = Sample(m, center)]

\* get_frame lines 176-177: the loop over user_points stops at the first point
\* whose indexing raises; the points before it are already updated
FirstBad(points) ==
    LET bad == {i \in 1..Len(points) : ~SampleOk(points[i])}
    IN  IF bad = {} THEN Len(points) + 1
        ELSE CHOOSE i \in bad : \A j \in bad : i <= j

RefreshUserPoints(m, points) ==
    [i \in 1..Len(points) |->
        IF i < FirstBad(points)
        THEN [points[i] EXCEPT !.temperature = Sample(m, points[i])]
        ELSE points[i]]

(***************************************************************************)
(* The camera.                                                             *)
(***************************************************************************)
Call(op, args, raised) == [op |-> op, args |-> args, raised |-> raised]

\* Python's None as the value of colormap_index
None == -1

\* ThermalCamera.COLORMAPS; the entry of list index i is COLORMAPS[i + 1]
COLORMAPS ==
    << [name |-> "Jet",        cv_map |-> "COLORMAP_JET"],
       [name |-> "Hot",        cv_map |-> "COLORMAP_HOT"],
       [name |-> "Magma",      cv_map |-> "COLORMAP_MAGMA"],
       [name |-> "Inferno",    cv_map |-> "COLORMAP_INFERNO"],
       [name |-> "Plasma",     cv_map |-> "COLORMAP_PLASMA"],
       [name |-> "Bone",       cv_map |-> "COLORMAP_BONE"],
       [name |-> "Spring",     cv_map |-> "COLORMAP_SPRING"],
       [name |-> "Autumn",     cv_map |-> "COLORMAP_AUTUMN"],
       [name |-> "Viridis",    cv_map |-> "COLORMAP_VIRIDIS"],
       [name |-> "Parula",     cv_map |-> "COLORMAP_PARULA"],
       [name |-> "InvRainbow", cv_map |-> "COLORMAP_RAINBOW"] >>

\* _find_colormap_index: the list index of the first entry of that name, or
\* None
find_colormap_index(colormap_name) ==
    LET found == {i \in 1..Len(COLORMAPS) : COLORMAPS[i].name = colormap_name}
    IN  IF found = {} THEN None
        ELSE (CHOOSE i \in found : \A j \in found : i <= j) - 1

\* ThermalCamera.__init__ lines 95-119: the camera built from the arguments
\* scale, alpha (in hundredths) and colormap_name
Construct(scale_arg, alpha_arg, colormap_name) ==
    /\ cap_open = TRUE
    /\ thdata = NoFrame
    /\ scale = scale_arg
    /\ scaled_width = sensor_width * scale_arg
    /\ scaled_height = sensor_height * scale_arg
    /\ alpha = alpha_arg
    /\ colormap_index = find_colormap_index(colormap_name)
    /\ blur_radius = 0
    /\ threshold = 2
    /\ center_point = Point(sensor_width \div 2, sensor_height \div 2, 0)
    /\ min_point = Point(0, 0, 0)
    /\ max_point = Point(0, 0, 0)
    /\ user_points = <<>>
    /\ avg_temp = 0
    /\ returned = "None"
    /\ call = Call("init", <<>>, "none")

\* the camera main() builds when no option is given: --scale 3, --alpha 1.0,
\* --colormap Jet
InitCamera == Construct(3, 100, "Jet")

\* no ThermalApp drives the camera
NoApp ==
    /\ pc = "none"
    /\ point_erase_mode = FALSE
    /\ gui_colormap_text = ""

Init ==
    /\ InitCamera
    /\ NoApp
    /\ pixel = <<0, 0>>
    /\ decoded = <<>>

\* _apply_colormap for a list index, the heatmap get_frame returns: the OpenCV
\* colormap applied, and whether the BGR2RGB conversion of line 304 follows it
apply_colormap(index) ==
    [cv_map  |-> COLORMAPS[index + 1].cv_map,
     swapped |-> COLORMAPS[index + 1].name = "InvRaibow"]

\* get_frame lines 179-190, the image half: what the pipeline raises, "none"
\* when it returns a heatmap.  cv2.resize rejects an empty or negative size;
\* COLORMAPS[None] is a TypeError.
pipeline_raises ==
    IF scaled_width <= 0 \/ scaled_height <= 0 THEN "cv2.error"
    ELSE IF colormap_index = None THEN "TypeError"
    ELSE "none"

\* capture_failed leaving the user points without their temperatures
capture_failed_resetting_points ==
    /\ call' = Call("get_frame", <<>>, "IOError")
    /\ returned' = "None"
    /\ user_points' = [i \in 1..Len(user_points) |->
                          [user_points[i] EXCEPT !.temperature = 0]]
    /\ UNCHANGED <<thdata, center_point, min_point, max_point, avg_temp>>

\* get_frame lines 146-147 and 151-152: the IOError raised when the capture
\* device is not open or the frame read is empty, before anything is assigned
capture_failed ==
    /\ call' = Call("get_frame", <<>>, "IOError")
    /\ returned' = "None"
    /\ UNCHANGED <<thdata, center_point, min_point, max_point, avg_temp,
                   user_points>>

\* ThermalCamera.get_frame, with the frame source delivering a frame of F or
\* an empty read.  Lines 179-190 transform the image half and assign none of
\* the fields.
get_frame(F) ==
    /\ UNCHANGED <<cap_open, pixel, decoded, display>>
    /\ IF ~cap_open
       THEN capture_failed
       ELSE \E ret \in BOOLEAN :
            IF ~ret
            THEN capture_failed
            ELSE \E frame \in F :
                 \E thermal_matrix \in {DecodeMatrix(frame)} :
                 \E raised \in {IF FirstBad(user_points) <= Len(user_points)
                                 THEN "IndexError" ELSE pipeline_raises} :
                     /\ thdata' = frame
                     /\ center_point' = extract_center_temp(thermal_matrix, center_point)
                     /\ max_point' = extract_max_temp(thermal_matrix)
                     /\ min_point' = extract_min_temp(thermal_matrix)
                     /\ avg_temp' \in extract_avg_temp(thermal_matrix)
                     /\ user_points' = RefreshUserPoints(thermal_matrix, user_points)
                     /\ returned' = IF raised = "none"
                                    THEN apply_colormap(colormap_index)
                                    ELSE "None"
                     /\ call' = Call("get_frame", <<>>, raised)

\* ThermalCamera.stop_capture
stop_capture ==
    /\ cap_open' = FALSE
    /\ call' = Call("stop_capture", <<>>, "none")
    /\ returned' = "None"
    /\ UNCHANGED <<thdata, center_point, min_point, max_point, avg_temp,
                   user_points, pixel, decoded, display>>

\* add_point with the two coordinates exchanged
add_point_swapped(x, y) ==
    /\ Len(user_points) < MaxPoints
    /\ user_points' = Append(user_points, Point(y, x, 0))
    /\ call' = Call("add_point", <<x, y>>, "none")
    /\ returned' = "None"
    /\ UNCHANGED <<cap_open, thdata, center_point, min_point, max_point,
                   avg_temp, pixel, decoded, display>>

\* ThermalCamera.add_point
add_point(x, y) ==
    /\ Len(user_points) < MaxPoints
    /\ user_points' = Append(user_points, Point(x, y, 0))
    /\ call' = Call("add_point", <<x, y>>, "none")
    /\ returned' = "None"
    /\ UNCHANGED <<cap_open, thdata, center_point, min_point, max_point,
                   avg_temp, pixel, decoded, display>>

\* Pop taking the index as counted from 1
PopOneBased(list, index) ==
    SubSeq(list, 1, index - 1) \o SubSeq(list, index + 1, Len(list))

\* list.pop(index) for 0 <= index < len
Pop(list, index) ==
    SubSeq(list, 1, index) \o SubSeq(list, index + 2, Len(list))

\* DynamicList.remove: the list afterwards and the exception raised
DynamicList_remove(list, index) ==
    IF 0 <= index /\ index < Len(list)
    THEN [list |-> Pop(list, index), raised |-> "none"]
    ELSE [list |-> list, raised |-> "IndexError"]

\* remove_point_result without the guard of line 272
remove_point_unguarded(points, point_number) ==
    DynamicList_remove(points, point_number)

\* remove_point_result testing only the upper bound and popping as Python does,
\* a negative index counting from the end
remove_point_no_lower_bound(points, point_number) ==
    IF point_number < Len(points) /\ -Len(points) <= point_number
    THEN [list |-> Pop(points, IndexAt(point_number, Len(points))),
          raised |-> "none"]
    ELSE [list |-> points, raised |-> "none"]

\* ThermalCamera.remove_point: the list afterwards and the exception raised
remove_point_result(points, point_number) ==
    IF point_number >= 0 /\ point_number < Len(points)
    THEN DynamicList_remove(points, point_number)
    ELSE [list |-> points, raised |-> "none"]

remove_point(point_number) ==
    LET res == remove_point_result(user_points, point_number)
    IN  /\ user_points' = res.list
        /\ call' = Call("remove_point", <<point_number>>, res.raised)
        /\ returned' = "None"
        /\ UNCHANGED <<cap_open, thdata, center_point, min_point, max_point,
                       avg_temp, pixel, decoded, display>>

\* what a display parameter transition leaves alone
TransitionFrame ==
    UNCHANGED <<cap_open, thdata, center_point, min_point, max_point, avg_temp,
                user_points, pixel, decoded>>

Min(a, b) == IF a <= b THEN a ELSE b
Max(a, b) == IF a >= b THEN a ELSE b

\* ThermalCamera.increase_scaling
increase_scaling ==
    /\ scale' = Min(scale + 1, 5)
    /\ scaled_width' = sensor_width * scale'
    /\ scaled_height' = sensor_height * scale'
    /\ call' = Call("increase_scaling", <<>>, "none")
    /\ returned' = "None"
    /\ UNCHANGED <<alpha, colormap_index, blur_radius, threshold>>
    /\ TransitionFrame

\* decrease_scaling recomputing the width only
decrease_scaling_width_only ==
    /\ scale' = Max(scale - 1, 1)
    /\ scaled_width' = sensor_width * scale'
    /\ call' = Call("decrease_scaling", <<>>, "none")
    /\ returned' = "None"
    /\ UNCHANGED <<scaled_height, alpha, colormap_index, blur_radius,
                   threshold>>
    /\ TransitionFrame

\* ThermalCamera.decrease_scaling
decrease_scaling ==
    /\ scale' = Max(scale - 1, 1)
    /\ scaled_width' = sensor_width * scale'
    /\ scaled_height' = sensor_height * scale'
    /\ call' = Call("decrease_scaling", <<>>, "none")
    /\ returned' = "None"
    /\ UNCHANGED <<alpha, colormap_index, blur_radius, threshold>>
    /\ TransitionFrame

\* ThermalCamera.increase_blur
increase_blur ==
    /\ blur_radius < MaxBlur
    /\ blur_radius' = blur_radius + 1
    /\ call' = Call("increase_blur", <<>>, "none")
    /\ returned' = "None"
    /\ UNCHANGED <<scale, scaled_width, scaled_height, alpha, colormap_index,
                   threshold>>
    /\ TransitionFrame

\* ThermalCamera.decrease_blur
decrease_blur ==
    /\ blur_radius' = Max(blur_radius - 1, 0)
    /\ call' = Call("decrease_blur", <<>>, "none")
    /\ returned' = "None"
    /\ UNCHANGED <<scale, scaled_width, scaled_height, alpha, colormap_index,
                   threshold>>
    /\ TransitionFrame

\* ThermalCamera.increase_threshold
increase_threshold ==
    /\ threshold < MaxThreshold
    /\ threshold' = threshold + 1
    /\ call' = Call("increase_threshold", <<>>, "none")
    /\ returned' = "None"
    /\ UNCHANGED <<scale, scaled_width, scaled_height, alpha, colormap_index,
                   blur_radius>>
    /\ TransitionFrame

\* decrease_threshold without the floor of line 231
decrease_threshold_unfloored ==
    /\ threshold' = threshold - 1
    /\ call' = Call("decrease_threshold", <<>>, "none")
    /\ returned' = "None"
    /\ UNCHANGED <<scale, scaled_width, scaled_height, alpha, colormap_index,
                   blur_radius>>
    /\ TransitionFrame

\* ThermalCamera.decrease_threshold
decrease_threshold ==
    /\ threshold' = Max(threshold - 1, 0)
    /\ call' = Call("decrease_threshold", <<>>, "none")
    /\ returned' = "None"
    /\ UNCHANGED <<scale, scaled_width, scaled_height, alpha, colormap_index,
                   blur_radius>>
    /\ TransitionFrame

\* round(a, 1) for a gain of a hundredths: the nearest tenth, in hundredths.
\* On a gain that lies halfway between two tenths the double that stands for
\* it decides, so both neighbours are possible results.
Round1(a) == {10 * q : q \in NearestInts(a, 10)}

\* ThermalCamera.increase_contrast
increase_contrast ==
    /\ \E rounded \in Round1(alpha + 10) : alpha' = Min(rounded, 300)
    /\ call' = Call("increase_contrast", <<>>, "none")
    /\ returned' = "None"
    /\ UNCHANGED <<scale, scaled_width, scaled_height, colormap_index,
                   blur_radius, threshold>>
    /\ TransitionFrame

\* ThermalCamera.decrease_contrast
decrease_contrast ==
    /\ \E rounded \in Round1(alpha - 10) : alpha' = Max(rounded, 0)
    /\ call' = Call("decrease_contrast", <<>>, "none")
    /\ returned' = "None"
    /\ UNCHANGED <<scale, scaled_width, scaled_height, colormap_index,
                   blur_radius, threshold>>
    /\ TransitionFrame

\* next_colormap returning the name of the colormap it leaves
next_colormap_result_previous_name(index) ==
    IF index = None
    THEN [index |-> index, name |-> "None", raised |-> "TypeError"]
    ELSE LET next == IF index + 1 = 11 THEN 0 ELSE index + 1
         IN  [index |-> next, name |-> COLORMAPS[index + 1].name,
              raised |-> "none"]

\* ThermalCamera.next_colormap: the index afterwards, the name returned and
\* the exception raised.  None + 1 is a TypeError, raised before any
\* assignment.
next_colormap_result(index) ==
    IF index = None
    THEN [index |-> index, name |-> "None", raised |-> "TypeError"]
    ELSE LET next == IF index + 1 = 11 THEN 0 ELSE index + 1
         IN  [index |-> next, name |-> COLORMAPS[next + 1].name,
              raised |-> "none"]

next_colormap ==
    LET res == next_colormap_result(colormap_index)
    IN  /\ colormap_index' = res.index
        /\ returned' = res.name
        /\ call' = Call("next_colormap", <<>>, res.raised)
        /\ UNCHANGED <<scale, scaled_width, scaled_height, alpha, blur_radius,
                       threshold>>
        /\ TransitionFrame

\* the coordinates <<x, y>> add_point is called with: the first pixel of the
\* sensor, one past its last pixel, and negative
Clicks == {<<0, 0>>, <<sensor_width, sensor_height>>, <<-1, -1>>}

\* the indices remove_point is called with: valid, negative, and past the end
RemoveIndices == -1..MaxPoints

(***************************************************************************)
(* The application: ThermalApp of main.py.  pc names the call the main     *)
(* loop of _start_capture makes next; "exited" is the loop left and        *)
(* "raised" an exception that nothing catches.                             *)
(***************************************************************************)
\* the fields of the camera, which the steps of the loop that call no camera
\* method leave alone
camera == <<cap_open, thdata, center_point, min_point, max_point, avg_temp,
            user_points, call, pixel, decoded, display, returned>>

\* ThermalApp.__init__ lines 39-42 on the camera main() builds from its
\* options, up to the first test of the loop condition
InitThermalApp(scale_arg, alpha_arg, colormap_name) ==
    /\ Construct(scale_arg, alpha_arg, colormap_name)
    /\ point_erase_mode = FALSE
    /\ gui_colormap_text = colormap_name
    /\ pc = "capture_status"
    /\ pixel = <<0, 0>>
    /\ decoded = <<>>

\* start_capture_frame requesting the frame without testing the loop
\* condition
start_capture_frame_unconditional(F) ==
    /\ pc = "capture_status"
    /\ get_frame(F)
    /\ pc' = IF call'.raised = "none" THEN "draw_gui" ELSE "raised"
    /\ UNCHANGED <<point_erase_mode, gui_colormap_text>>

\* _start_capture lines 53-54: the loop condition holds and the frame is
\* requested; an exception of get_frame leaves the loop and the program
start_capture_frame(F) ==
    /\ pc = "capture_status"
    /\ cap_open
    /\ get_frame(F)
    /\ pc' = IF call'.raised = "none" THEN "draw_gui" ELSE "raised"
    /\ UNCHANGED <<point_erase_mode, gui_colormap_text>>

\* _start_capture lines 57-64: _draw_gui draws the center point and every
\* user point of the camera with the temperature it holds, imshow shows the
\* frame and _handle_recording writes it; none assigns a field of the camera
draw_gui ==
    /\ pc = "draw_gui"
    /\ pc' = "handle_keyboard_input"
    /\ UNCHANGED <<camera, point_erase_mode, gui_colormap_text>>

\* _start_capture line 53: the loop condition fails
start_capture_exit ==
    /\ pc = "capture_status"
    /\ ~cap_open
    /\ pc' = "exited"
    /\ UNCHANGED <<camera, point_erase_mode, gui_colormap_text>>

\* handle_mouse_input called wherever the main loop stands
handle_mouse_input_at_any_time(x, y) ==
    /\ pc \in {"capture_status", "handle_keyboard_input"}
    /\ scale # 0
    /\ add_point(x \div scale, y \div scale)
    /\ UNCHANGED app

\* _handle_mouse_input dispatched as soon as the frame is read, before the
\* frame is drawn
handle_mouse_input_before_draw(x, y) ==
    /\ pc \in {"draw_gui", "handle_keyboard_input"}
    /\ scale # 0
    /\ add_point(x \div scale, y \div scale)
    /\ UNCHANGED app

\* _handle_mouse_input for a left button press at window position <<x, y>>.
\* OpenCV calls it from its event loop, which the program runs only inside
\* cv2.waitKey, line 91 of _handle_keyboard_input.  (A scale of 0 would make
\* the division raise; get_frame has raised on such a camera before.)
handle_mouse_input(x, y) ==
    /\ pc = "handle_keyboard_input"
    /\ scale # 0
    /\ add_point(x \div scale, y \div scale)
    /\ UNCHANGED app

\* the keys of _handle_keyboard_input that name a user point
Digits == [key \in {"0", "1", "2", "3", "4", "5", "6", "7", "8", "9"} |->
              CHOOSE n \in 0..9 : ToString(n) = key]

\* the keys that call a display parameter transition
TransitionKeys == {"a", "z", "s", "x", "d", "c", "f", "v", "m"}

\* handle_key leaving point erase mode on after a digit key
handle_key_erase_mode_kept(key) ==
    CASE key = "o" ->
            /\ point_erase_mode' = ~point_erase_mode
            /\ UNCHANGED <<camera, gui_colormap_text>>
      [] key \in DOMAIN Digits /\ point_erase_mode ->
            /\ remove_point(Digits[key])
            /\ UNCHANGED <<point_erase_mode, gui_colormap_text>>
      [] key = "a" ->
            increase_blur /\ UNCHANGED <<point_erase_mode, gui_colormap_text>>
      [] key = "z" ->
            decrease_blur /\ UNCHANGED <<point_erase_mode, gui_colormap_text>>
      [] key = "s" ->
            increase_threshold /\ UNCHANGED <<point_erase_mode, gui_colormap_text>>
      [] key = "x" ->
            decrease_threshold /\ UNCHANGED <<point_erase_mode, gui_colormap_text>>
      [] key = "d" ->
            increase_scaling /\ UNCHANGED <<point_erase_mode, gui_colormap_text>>
      [] key = "c" ->
            decrease_scaling /\ UNCHANGED <<point_erase_mode, gui_colormap_text>>
      [] key = "f" ->
            increase_contrast /\ UNCHANGED <<point_erase_mode, gui_colormap_text>>
      [] key = "v" ->
            decrease_contrast /\ UNCHANGED <<point_erase_mode, gui_colormap_text>>
      [] key = "m" ->
            /\ next_colormap
            /\ gui_colormap_text' = IF call'.raised = "none"
                                    THEN returned' ELSE gui_colormap_text
            /\ UNCHANGED point_erase_mode
      [] key = "q" ->
            stop_capture /\ UNCHANGED <<point_erase_mode, gui_colormap_text>>
      [] OTHER ->
            UNCHANGED <<camera, point_erase_mode, gui_colormap_text>>

\* _handle_keyboard_input lines 93-173 for the key waitKey returned ("" when
\* no key was pressed).  The keys e, w, h, r, t and p assign fields of
\* ThermalApp that the model does not hold.
handle_key(key) ==
    CASE key = "o" ->
            /\ point_erase_mode' = ~point_erase_mode
            /\ UNCHANGED <<camera, gui_colormap_text>>
      [] key \in DOMAIN Digits /\ point_erase_mode ->
            /\ remove_point(Digits[key])
            /\ point_erase_mode' = FALSE
            /\ UNCHANGED gui_colormap_text
      [] key = "a" ->
            increase_blur /\ UNCHANGED <<point_erase_mode, gui_colormap_text>>
      [] key = "z" ->
            decrease_blur /\ UNCHANGED <<point_erase_mode, gui_colormap_text>>
      [] key = "s" ->
            increase_threshold /\ UNCHANGED <<point_erase_mode, gui_colormap_text>>
      [] key = "x" ->
            decrease_threshold /\ UNCHANGED <<point_erase_mode, gui_colormap_text>>
      [] key = "d" ->
            increase_scaling /\ UNCHANGED <<point_erase_mode, gui_colormap_text>>
      [] key = "c" ->
            decrease_scaling /\ UNCHANGED <<point_erase_mode, gui_colormap_text>>
      [] key = "f" ->
            increase_contrast /\ UNCHANGED <<point_erase_mode, gui_colormap_text>>
      [] key = "v" ->
            decrease_contrast /\ UNCHANGED <<point_erase_mode, gui_colormap_text>>
      [] key = "m" ->
            /\ next_colormap
            /\ gui_colormap_text' = IF call'.raised = "none"
                                    THEN returned' ELSE gui_colormap_text
            /\ UNCHANGED point_erase_mode
      [] key = "q" ->
            stop_capture /\ UNCHANGED <<point_erase_mode, gui_colormap_text>>
      [] OTHER ->
            UNCHANGED <<camera, point_erase_mode, gui_colormap_text>>

\* _handle_keyboard_input: the window is visible and the key is handled, or
\* it was closed and the capture is released
handle_keyboard_input(visible, key) ==
    /\ pc = "handle_keyboard_input"
    /\ IF visible
       THEN /\ handle_key(key)
            /\ pc' = IF key \in TransitionKeys /\ call'.raised # "none"
                     THEN "raised" ELSE "capture_status"
       ELSE /\ stop_capture
            /\ pc' = "capture_status"
            /\ UNCHANGED <<point_erase_mode, gui_colormap_text>>

(***************************************************************************)
(* Specifications.                                                         *)
(***************************************************************************)
\* the frames of the frame cycle specification
CycleFrames == FramesWithSpots(MaxSpots)

\* the frames delivered while user points are registered: uniform, or with one
\* pixel of another code
RegistryFrames == FramesWithSpots(1)

\* the camera with its point registry
Next ==
    \/ get_frame(RegistryFrames) /\ UNCHANGED app
    \/ \E xy \in Clicks : add_point(xy[1], xy[2]) /\ UNCHANGED app
    \/ \E k \in RemoveIndices : remove_point(k) /\ UNCHANGED app

Spec == Init /\ [][Next]_vars

\* the frame cycle over every frame of CycleFrames, without user points
NextCycle ==
    \/ get_frame(CycleFrames) /\ UNCHANGED app
    \/ stop_capture /\ UNCHANGED app

SpecCycle == Init /\ [][NextCycle]_vars

\* the arguments ThermalCamera is constructed with.  main() takes --scale as
\* any integer and --alpha as any float, and restricts --colormap to the
\* catalog names; the constructor itself takes any name.
ScaleArgs == {0, 3, 7}
AlphaArgs == {-20, 100, 104, 320}
ColormapArgs == {COLORMAPS[i].name : i \in 1..Len(COLORMAPS)} \cup {"Rainbow"}

\* the display parameters of a camera constructed with any of these arguments
InitDisplay ==
    /\ \E scale_arg \in ScaleArgs :
       \E alpha_arg \in AlphaArgs :
       \E colormap_name \in ColormapArgs :
           Construct(scale_arg, alpha_arg, colormap_name)
    /\ NoApp
    /\ pixel = <<0, 0>>
    /\ decoded = <<>>

NextDisplay ==
    \/ increase_scaling /\ UNCHANGED app
    \/ decrease_scaling /\ UNCHANGED app
    \/ increase_blur /\ UNCHANGED app
    \/ decrease_blur /\ UNCHANGED app
    \/ increase_threshold /\ UNCHANGED app
    \/ decrease_threshold /\ UNCHANGED app
    \/ increase_contrast /\ UNCHANGED app
    \/ decrease_contrast /\ UNCHANGED app
    \/ next_colormap /\ UNCHANGED app

SpecDisplay == InitDisplay /\ [][NextDisplay]_vars

\* frames of one pixel code
UniformFrames == FramesWithSpots(0)

\* the camera with its capture device: frames that arrive or fail, the
\* device released, a point added at the first pixel and the colormap
\* changed, for a camera constructed with any colormap name
InitCapture ==
    /\ \E colormap_name \in ColormapArgs : Construct(3, 100, colormap_name)
    /\ NoApp
    /\ pixel = <<0, 0>>
    /\ decoded = <<>>

NextCapture ==
    \/ get_frame(UniformFrames) /\ UNCHANGED app
    \/ stop_capture /\ UNCHANGED app
    \/ add_point(0, 0) /\ UNCHANGED app
    \/ next_colormap /\ UNCHANGED app

SpecCapture == InitCapture /\ [][NextCapture]_vars

\* the frames the application receives: of one pixel code, or with the pixel
\* at the middle of the sensor of another code
AppFrames ==
    {Paint(bg, fg, S) : bg \in PixelCodes, fg \in PixelCodes,
                        S \in {{}, {<<sensor_height \div 2, sensor_width \div 2>>}}}

\* the keys pressed: no key, the erase mode key and a digit, quit, and one
\* key of each display parameter: scale up, colormap, and blur down, threshold
\* down and contrast up, which the clamps absorb sooner or later
AppKeys == {"", "o", "0", "9", "d", "m", "z", "x", "f", "q"}

\* the window positions clicked
AppClicks == {<<0, 0>>}

\* the names main.py accepts for --colormap (click.Choice, case sensitive)
ColormapChoice ==
    {"Jet", "Hot", "Magma", "Inferno", "Plasma", "Bone", "Spring", "Autumn",
     "Viridis", "Parula", "InvRainbow"}

\* the program run as main.py --scale 3 --alpha 3.0 --colormap <name>
InitApp ==
    \E colormap_name \in ColormapChoice : InitThermalApp(3, 300, colormap_name)

NextApp ==
    \/ start_capture_frame(AppFrames)
    \/ start_capture_exit
    \/ draw_gui
    \/ \E xy \in AppClicks : handle_mouse_input(xy[1], xy[2])
    \/ \E visible \in BOOLEAN : \E key \in AppKeys :
           handle_keyboard_input(visible, key)

SpecApp == InitApp /\ [][NextApp]_vars

\* the two decoders applied to one pixel
InitDecode ==
    /\ InitCamera
    /\ NoApp
    /\ pixel \in Byte \X Byte
    /\ decoded = <<>>

DecodePixel ==
    /\ decoded = <<>>
    /\ decoded' = [raw_matrix  |-> RawMatrix(pixel[1], pixel[2]),
                   raw_scalar  |-> RawScalar(pixel[1], pixel[2]),
                   temp_matrix |-> DecodeMatrixPixel(pixel[1], pixel[2]),
                   temp_scalar |-> DecodeScalarPixel(pixel[1], pixel[2])]
    /\ UNCHANGED <<cap_open, thdata, center_point, min_point, max_point,
                   avg_temp, user_points, call, pixel, display, returned,
                   app>>

NextDecode == DecodePixel

SpecDecode == InitDecode /\ [][NextDecode]_vars

(***************************************************************************)
(* Claims.                                                                 *)
(***************************************************************************)
\* a successful frame cycle has just completed
CycleDone == call.op = "get_frame" /\ call.raised = "none"

\* the temperature matrix of the last frame read
LastMatrix == DecodeMatrix(thdata)

\* n is a hundredth nearest to raw/64 - 273.15
NearestHundredth(n, raw) == Abs(16 * n - (25 * raw - 437040)) <= 8

\* n is the hundredth nearest to raw/64 - 273.15, the upper one on a tie
NearestHundredthUp(n, raw) ==
    /\ NearestHundredth(n, raw)
    /\ 16 * n - (25 * raw - 437040) # -8

\* C1 as stated: with lo the first byte of the pixel and hi the second, both
\* decoders compute raw = hi + lo*256 and the temperature
\* round(raw/64.0 - 273.15, 2).
C1_FirstByteHigh ==
    decoded # <<>> =>
        LET lo  == pixel[1]
            hi  == pixel[2]
            raw == hi + lo * 256
        IN  /\ decoded.raw_matrix = raw
            /\ decoded.raw_scalar = raw
            /\ NearestHundredthUp(decoded.temp_scalar, raw)
            /\ NearestHundredth(decoded.temp_matrix, raw)

\* C1 amended: the byte the code calls hi is the first byte of the pixel and
\* lo the second; for every byte pair both decoders compute raw = hi + lo*256,
\* the scalar decoder's temperature is raw/64 - 273.15 rounded to the nearest
\* hundredth (upward on a tie, as Python's round does on this double) and the
\* matrix decoder's is a nearest hundredth of it; hi = 0x20, lo = 0x01 gives
\* raw 288 and -268.65.
C1_SecondByteHigh ==
    decoded # <<>> =>
        LET hi  == pixel[1]
            lo  == pixel[2]
            raw == hi + lo * 256
        IN  /\ decoded.raw_matrix = raw
            /\ decoded.raw_scalar = raw
            /\ NearestHundredthUp(decoded.temp_scalar, raw)
            /\ NearestHundredth(decoded.temp_matrix, raw)
            /\ (hi = 32 /\ lo = 1) =>
                   /\ raw = 288
                   /\ decoded.temp_scalar = -26865
                   /\ decoded.temp_matrix = -26865

\* C1 witness: the pixel of the example, first byte 0x20 and second byte 0x01,
\* has been decoded
C1_Witness ==
    /\ decoded # <<>>
    /\ pixel = <<32, 1>>
    /\ decoded.raw_matrix = 288
    /\ decoded.temp_matrix = -26865

\* C2: the matrix decoder and the scalar decoder give the same temperature for
\* the two bytes of every pixel.
C2_DecodersAgree ==
    decoded # <<>> => decoded.temp_matrix = decoded.temp_scalar

\* C3: in the initial state and after every frame cycle
\* min.temperature <= average <= max.temperature, and on a matrix of one value
\* the three are equal.
C3_MinAvgMax ==
    /\ min_point.temperature <= avg_temp
    /\ avg_temp <= max_point.temperature
    /\ (thdata # NoFrame /\ Cardinality(MatrixValues(LastMatrix)) = 1) =>
           /\ min_point.temperature = avg_temp
           /\ avg_temp = max_point.temperature

\* C3 witness: a cycle over a frame of two temperatures, the average strictly
\* between them
C3_Witness ==
    /\ CycleDone
    /\ min_point.temperature < avg_temp
    /\ avg_temp < max_point.temperature

\* the cell <<r1, c1>> is scanned no later than <<r2, c2>>
ScannedBefore(r1, c1, r2, c2) == r1 < r2 \/ (r1 = r2 /\ c1 <= c2)

\* the point p of _extract_max_temp/_extract_min_temp, which carries the row
\* in x_pos and the column in y_pos, names the first cell of value v in scan
\* order
FirstCellOf(p, v) ==
    /\ p.x_pos \in Rows
    /\ p.y_pos \in Cols
    /\ LastMatrix[p.x_pos][p.y_pos] = v
    /\ p.temperature = v
    /\ \A rc \in Cells :
           LastMatrix[rc[1]][rc[2]] = v =>
               ScannedBefore(p.x_pos, p.y_pos, rc[1], rc[2])

\* C4: when several cells share the maximum (minimum), the max (min) point is
\* the cell of that value that comes first in row-major scan order.
C4_FirstInScanOrder ==
    thdata # NoFrame =>
        /\ \A rc \in Cells : LastMatrix[rc[1]][rc[2]] <= max_point.temperature
        /\ \A rc \in Cells : LastMatrix[rc[1]][rc[2]] >= min_point.temperature
        /\ FirstCellOf(max_point, max_point.temperature)
        /\ FirstCellOf(min_point, min_point.temperature)

\* C4 witness: two cells share the maximum, and the first of them is not the
\* first cell of the matrix
C4_Witness ==
    /\ CycleDone
    /\ Cardinality({rc \in Cells :
                       LastMatrix[rc[1]][rc[2]] = max_point.temperature}) = 2
    /\ <<max_point.x_pos, max_point.y_pos>> # <<0, 0>>

\* p.temperature is matrix[p.y_pos][p.x_pos], x the column and y the row
ReadsOwnCell(p) == SampleOk(p) /\ p.temperature = Sample(LastMatrix, p)

\* C5: after every successful frame cycle each user point, center, min and max
\* satisfies point.temperature = matrix[point.y][point.x].
C5_PointsReadOwnCell ==
    CycleDone =>
        /\ \A i \in 1..Len(user_points) : ReadsOwnCell(user_points[i])
        /\ ReadsOwnCell(center_point)
        /\ ReadsOwnCell(min_point)
        /\ ReadsOwnCell(max_point)

\* this step is the call remove_point(k)
RemoveStep(k) == call'.op = "remove_point" /\ call'.args = <<k>>

\* k is an index of the user point list as it is before the step
ValidIndex(k) == 0 <= k /\ k < Len(user_points)

\* C6: remove_point(k) with 0 <= k < count removes exactly the entry at index
\* k: the count drops by one, the entries before k keep their index and the
\* entries after k move down by one, contents unchanged.
C6_RemoveShiftsDown ==
    [][\A k \in RemoveIndices :
          (RemoveStep(k) /\ ValidIndex(k)) =>
              /\ Len(user_points') = Len(user_points) - 1
              /\ \A i \in 0..(k - 1) : user_points'[i + 1] = user_points[i + 1]
              /\ \A i \in (k + 1)..(Len(user_points) - 1) :
                     user_points'[i] = user_points[i + 1]]_vars

\* C6 witness: index 1 was removed and two points remain, the one that was
\* before it and the one that was after it, with different contents
C6_Witness ==
    /\ call.op = "remove_point"
    /\ call.args = <<1>>
    /\ Len(user_points) = 2
    /\ user_points[1] # user_points[2]
    /\ user_points[2].temperature # 0

C8_InvalidIndexNoChange ==
    [][\A k \in RemoveIndices :
          (RemoveStep(k) /\ ~ValidIndex(k)) => user_points' = user_points]_vars

\* C8 witness: remove_point(-1) was called on a registry that holds sampled
\* points
C8_Witness ==
    /\ call.op = "remove_point"
    /\ call.args = <<-1>>
    /\ Len(user_points) = MaxPoints
    /\ user_points[Len(user_points)].temperature # 0

\* this step is a get_frame call that read a frame
FrameStep == call'.op = "get_frame" /\ call'.raised # "IOError"

\* C9: a refresh that meets a user point outside the matrix leaves that point
\* at its previous temperature and does not abort the cycle: every other user
\* point and center, min, max and average are refreshed from the frame.
C9_BadPointSkipped ==
    [][(FrameStep /\ \E i \in 1..Len(user_points) : ~SampleOk(user_points[i])) =>
          LET m == DecodeMatrix(thdata')
          IN  /\ \A i \in 1..Len(user_points) :
                     IF SampleOk(user_points[i])
                     THEN user_points'[i] =
                              [user_points[i] EXCEPT
                                  !.temperature = Sample(m, user_points[i])]
                     ELSE user_points'[i] = user_points[i]
              /\ center_point'.temperature = Sample(m, center_point)
              /\ max_point'.temperature = MatrixMax(m)
              /\ min_point'.temperature = MatrixMin(m)
              /\ avg_temp' \in extract_avg_temp(m)]_vars

\* this step is the call add_point(x, y)
AddStep(x, y) == call'.op = "add_point" /\ call'.args = <<x, y>>

\* C10: add_point(x, y) appends exactly one point with the given x, y and
\* temperature 0 at the end of the list, whatever x and y are; the count grows
\* by one and every stored point keeps its index and contents.
C10_AddAppends ==
    [][\A xy \in Clicks :
          AddStep(xy[1], xy[2]) =>
              /\ Len(user_points') = Len(user_points) + 1
              /\ user_points'[Len(user_points')].x_pos = xy[1]
              /\ user_points'[Len(user_points')].y_pos = xy[2]
              /\ user_points'[Len(user_points')].temperature = 0
              /\ \A i \in 1..Len(user_points) :
                     user_points'[i] = user_points[i]]_vars

\* C10 witness: a point outside the sensor was appended behind a sampled point
C10_Witness ==
    /\ call.op = "add_point"
    /\ call.args = <<sensor_width, sensor_height>>
    /\ Len(user_points) >= 2
    /\ user_points[1].temperature # 0
    /\ user_points[Len(user_points)] = Point(sensor_width, sensor_height, 0)

\* the last call was one of these operations
Called(ops) == call.op \in ops

\* C11: in every state reached from the constructed state by
\* increase_scaling/decrease_scaling calls, scale is an integer in 1..5.
C11_ScaleInRange ==
    Called({"increase_scaling", "decrease_scaling"}) => scale \in 1..5

\* C12: in every reachable state scaled_width = sensor_width * scale and
\* scaled_height = sensor_height * scale, also after a scale change that a
\* clamp absorbed.
C12_ScaledSizes ==
    /\ scaled_width = sensor_width * scale
    /\ scaled_height = sensor_height * scale

\* C12 witness: decrease_scaling was called on a camera constructed with scale
\* 0 and the clamp moved the scale to 1: the sizes are those of scale 1, not
\* the empty sizes of construction
C12_Witness ==
    /\ call.op = "decrease_scaling"
    /\ scale = 1
    /\ scaled_width = sensor_width
    /\ scaled_height = sensor_height
    /\ alpha = 100
    /\ blur_radius = 0

\* C13: after any sequence of contrast transitions alpha is a multiple of one
\* tenth inside [0.0, 3.0].
C13_ContrastOnGridInRange ==
    Called({"increase_contrast", "decrease_contrast"}) =>
        /\ alpha % 10 = 0
        /\ 0 <= alpha
        /\ alpha <= 300

\* C14: blur_radius and threshold are never negative; a decrease subtracts 1
\* and floors at 0, an increase adds exactly 1.
C14_BlurThresholdFloor ==
    [][/\ blur_radius >= 0 /\ blur_radius' >= 0
       /\ threshold >= 0 /\ threshold' >= 0
       /\ call'.op = "increase_blur" => blur_radius' = blur_radius + 1
       /\ call'.op = "decrease_blur" =>
              blur_radius' = IF blur_radius = 0 THEN 0 ELSE blur_radius - 1
       /\ call'.op = "increase_threshold" => threshold' = threshold + 1
       /\ call'.op = "decrease_threshold" =>
              threshold' = IF threshold = 0 THEN 0 ELSE threshold - 1]_vars

\* C14 witness: decrease_threshold has brought the threshold from its initial
\* 2 to the floor, and the blur radius was raised and lowered again
C14_Witness ==
    /\ call.op = "decrease_threshold"
    /\ threshold = 0
    /\ blur_radius = MaxBlur

\* C15: next_colormap is called with colormap_index in 0..10, sets it to
\* (colormap_index + 1) mod 11 and returns the catalog name at the new index.
C15_NextColormapCycles ==
    [][call'.op = "next_colormap" =>
          /\ colormap_index \in 0..10
          /\ colormap_index' = (colormap_index + 1) % 11
          /\ returned' = COLORMAPS[colormap_index' + 1].name]_vars

\* the nine display parameter transitions
Transitions ==
    {"increase_scaling", "decrease_scaling", "increase_blur", "decrease_blur",
     "increase_threshold", "decrease_threshold", "increase_contrast",
     "decrease_contrast", "next_colormap"}

\* C16: none of the nine display parameter transitions raises, from any
\* state reachable from the constructed state.
C16_TransitionsNeverFail ==
    Called(Transitions) => call.raised = "none"

\* C17: a frame is colormapped with the channel swap after the mapping
\* exactly when colormap_index is 10 (InvRainbow).
C17_SwapIffInvRainbow ==
    [][(call'.op = "get_frame" /\ call'.raised = "none") =>
          (returned'.swapped <=> colormap_index = 10)]_vars

\* C18: a get_frame call on a capture that is not open, or that reads an
\* empty frame, raises IOError and leaves center, min, max, average, every
\* user point and the display parameters as they were.
C18_CaptureErrorNoChange ==
    [][call'.op = "get_frame" =>
          /\ ~cap_open => call'.raised = "IOError"
          /\ call'.raised = "IOError" =>
                 /\ center_point' = center_point
                 /\ min_point' = min_point
                 /\ max_point' = max_point
                 /\ avg_temp' = avg_temp
                 /\ user_points' = user_points
                 /\ display' = display]_vars

\* C18 witness: get_frame raised IOError on a released capture while the
\* camera holds a sampled user point, statistics of an earlier frame and a
\* colormap other than the first
C18_Witness ==
    /\ call.op = "get_frame"
    /\ call.raised = "IOError"
    /\ ~cap_open
    /\ Len(user_points) >= 1
    /\ user_points[1].temperature # 0
    /\ max_point.temperature # 0
    /\ avg_temp # 0
    /\ colormap_index = 1

\* the coordinates of the user points, in list order
Coordinates(points) ==
    [i \in 1..Len(points) |-> <<points[i].x_pos, points[i].y_pos>>]

\* this step calls the camera method op
Calls(op) == camera' # camera /\ call'.op = op

\* C19: in the main loop every display parameter transition, add_point and
\* remove_point runs in the input handling step, after the frame cycle has
\* completed and before the next frame is requested; a frame cycle changes
\* no display parameter and adds or removes no point.
C19_OnlyInInputStep ==
    [][/\ (\E op \in Transitions \cup {"add_point", "remove_point"} : Calls(op))
              => pc = "handle_keyboard_input"
       /\ pc # "handle_keyboard_input" =>
              /\ display' = display
              /\ Coordinates(user_points') = Coordinates(user_points)
       /\ Calls("get_frame") =>
              /\ pc = "capture_status"
              /\ display' = display
              /\ Coordinates(user_points') = Coordinates(user_points)]_vars

\* C19 witness: the input handling step has raised the scale, on a camera
\* that holds a frame and a user point added in an earlier input step, and
\* the loop is about to request the next frame
C19_Witness ==
    /\ pc = "capture_status"
    /\ call.op = "increase_scaling"
    /\ scale = 4
    /\ thdata # NoFrame
    /\ Len(user_points) >= 1
    /\ user_points[1].temperature # 0

\* C20: the center point stays at (sensor_width/2, sensor_height/2), integer
\* division, from construction on, and its temperature is that of
\* matrix[sensor_height/2][sensor_width/2] of the last frame read.
C20_CenterFixed ==
    /\ center_point.x_pos = sensor_width \div 2
    /\ center_point.y_pos = sensor_height \div 2
    /\ thdata # NoFrame =>
           center_point.temperature =
               LastMatrix[sensor_height \div 2][sensor_width \div 2]

\* C20 witness: a frame whose middle pixel differs from the others was read
\* after the scale was raised to 5 and a user point was added
C20_Witness ==
    /\ CycleDone
    /\ scale = 5
    /\ Len(user_points) >= 1
    /\ center_point.temperature # LastMatrix[0][0]
    /\ center_point.temperature = max_point.temperature

\* C21: once the quit key is handled or the window is found closed, the
\* capture is released and the loop is back at its condition; from there the
\* only step leaves the loop without touching the camera, so every get_frame
\* of the loop runs on an open capture and none raises "not open".
C21_ReleasedLoopExits ==
    [][/\ Calls("stop_capture") =>
              /\ pc = "handle_keyboard_input"
              /\ ~cap_open'
              /\ pc' = "capture_status"
       /\ ~cap_open =>
              /\ camera' = camera
              /\ pc = "capture_status" => pc' = "exited"
       /\ Calls("get_frame") => cap_open]_vars

\* C21 witness: the loop has exited after a release that followed at least
\* one frame
C21_Witness ==
    /\ pc = "exited"
    /\ ~cap_open
    /\ call.op = "stop_capture"
    /\ thdata # NoFrame

\* every user point holds the temperature of its pixel in matrix m, which is
\* not the placeholder 0 of add_point
Sampled(points, m) ==
    \A i \in 1..Len(points) :
        /\ SampleOk(points[i])
        /\ points[i].temperature = Sample(m, points[i])
        /\ points[i].temperature # 0

\* C22: a point added by a mouse click gets the placeholder 0 in the input
\* step, and the drawing position is entered only from a successful
\* get_frame that has sampled every user point from its matrix, so no point
\* is drawn with the placeholder.
C22_DrawnPointsSampled ==
    [][/\ Calls("add_point") =>
              /\ user_points'[Len(user_points')].temperature = 0
              /\ pc' = "handle_keyboard_input"
       /\ pc' = "draw_gui" =>
              /\ pc = "capture_status"
              /\ call'.op = "get_frame"
              /\ call'.raised = "none"
              /\ Sampled(user_points', DecodeMatrix(thdata'))
       /\ pc = "draw_gui" => Sampled(user_points, LastMatrix)]_vars

\* C22 witness: the frame is about to be drawn with two user points, both
\* holding the temperature of pixel (0, 0), which differs from the center's
C22_Witness ==
    /\ pc = "draw_gui"
    /\ Len(user_points) = 2
    /\ user_points[2].temperature = LastMatrix[0][0]
    /\ user_points[2].temperature # 0
    /\ center_point.temperature # user_points[2].temperature

\* C23: point erase mode changes only in the input step; it is switched on
\* by a step that leaves the camera alone (key 'o') and switched off by such
\* a step or by remove_point; remove_point is called only with erase mode
\* on, with a digit 0..9, removes the point at that index if there is one
\* and nothing otherwise, and leaves erase mode off either way; the list
\* shrinks only by such a call, so never while erase mode is off.
C23_EraseMode ==
    [][/\ point_erase_mode' # point_erase_mode =>
              /\ pc = "handle_keyboard_input"
              /\ camera' = camera \/ (point_erase_mode /\ Calls("remove_point"))
       /\ Calls("remove_point") =>
              /\ point_erase_mode
              /\ ~point_erase_mode'
              /\ \E n \in 0..9 :
                     /\ call'.args = <<n>>
                     /\ user_points' = IF n < Len(user_points)
                                       THEN Pop(user_points, n)
                                       ELSE user_points
       /\ Len(user_points') < Len(user_points) => Calls("remove_point")
       /\ ~point_erase_mode => Len(user_points') >= Len(user_points)]_vars

\* C23 witness: digit 9 was handled in erase mode while fewer than ten
\* points existed; the points are all still there and erase mode is off
C23_Witness ==
    /\ pc = "capture_status"
    /\ call = Call("remove_point", <<9>>, "none")
    /\ ~point_erase_mode
    /\ Len(user_points) >= 2

\* C24: in every state of the application the colormap name of the HUD is
\* the catalog name at the camera's colormap index.
C24_HudNameIsCatalogName ==
    /\ colormap_index \in 0..(Len(COLORMAPS) - 1)
    /\ gui_colormap_text = COLORMAPS[colormap_index + 1].name

\* C24 witness: 'm' was pressed on the last colormap of the catalog; the
\* index wrapped to 0 and the HUD shows the name of the first
C24_Witness ==
    /\ pc = "capture_status"
    /\ call.op = "next_colormap"
    /\ colormap_index = 0
    /\ gui_colormap_text = "Jet"
    /\ thdata # NoFrame

\* C25: for every pair of bytes the product b1*256 and the sum b1*256 + b0
\* lie in 0..65535, and the raw code the matrix decoder composes in unsigned
\* 16 bits is that exact sum.
C25_RawNoOverflow ==
    decoded # <<>> =>
        LET b0 == pixel[1]
            b1 == pixel[2]
        IN  /\ b1 * 256 \in 0..65535
            /\ b1 * 256 + b0 \in 0..65535
            /\ decoded.raw_matrix = b1 * 256 + b0

\* C25 witness: the pixel with both bytes 255 has been decoded to the largest
\* raw code
C25_Witness ==
    /\ decoded # <<>>
    /\ pixel = <<255, 255>>
    /\ decoded.raw_matrix = 65535
====
